---- MODULE Spec2Model ----
(***************************************************************************)
(* Model of the upload / extract / notify pipeline of the AI assistant.    *)
(*                                                                         *)
(*   Spec     FINALBOT/main.py: UploadThread.run (worker thread) and the   *)
(*            DocumentQAPopup slots that consume its queued signals.       *)
(*   SpecFair Spec with a worker that keeps running and an event loop that *)
(*            keeps dispatching (weak fairness).                           *)
(*   SpecQA   Spec together with DocumentQAPopup.ask_question.             *)
(*   SpecApp  app.py: UploadThread.run and AIAssistant.upload_pdf /        *)
(*            on_pdf_loaded.                                               *)
(*   SpecAppLocal  SpecApp with no storage bucket configured.              *)
(*   SpecClip the clipboard pollers of both programs and their toggles.    *)
(*   SpecAsk  SpecClip's TranslatorPopup together with ask_ollama.         *)
(*   SpecWeb  app.py: the Flask handlers and get_ollama_response.          *)
(*   SpecWebSeq  SpecWeb serving one request at a time.                    *)
(*   SpecFmt  FINALBOT/main.py: format_ollama_answer on bounded replies.   *)
(*                                                                         *)
(* Python strings are sequences of one-character strings, so that          *)
(* concatenation, truthiness (length > 0), basename and stem are computed  *)
(* as the code computes them.                                              *)
(***************************************************************************)
EXTENDS Integers, Sequences, FiniteSets, TLC

VARIABLES
    extractBucket,      \* AWS_EXTRACT_BUCKET is set (truthy)
    bucket,             \* keys of the objects in AWS_BUCKET_NAME
    uploader,           \* DocumentQAPopup.uploader: the FINALBOT UploadThread
    events,             \* signals emitted by the worker, queued for the UI thread
    upload_btn,         \* DocumentQAPopup.upload_btn enabled
    ask_btn,            \* DocumentQAPopup.ask_btn enabled
    status_label,       \* DocumentQAPopup.status_label text (by kind)
    pdf_extracted_text, \* DocumentQAPopup.pdf_extracted_text
    current_pdf_key,    \* DocumentQAPopup.current_pdf_key
    answer_area,        \* DocumentQAPopup.answer_area: appended entries
    requests,           \* inference requests sent by ask_question
    nUploads,           \* select_file calls so far
    nAsks,              \* questions asked so far (ask_question calls with a non-blank question)
    appBuckets,         \* app.py: [docs |-> AWS_BUCKET_NAME set, extracts |-> AWS_EXTRACT_BUCKET set]
    appThreads,         \* app.py: the UploadThreads started by AIAssistant.upload_pdf
    appEvents,          \* app.py: signals queued for the UI thread
    pdf_text,           \* app.py: AIAssistant.pdf_text
    text_area,          \* app.py: AIAssistant.text_area entries
    program,            \* the program that is running: FINALBOT/main.py or app.py
    libs,               \* HAS_PYPERCLIP, HAS_TRANSLATOR: the optional imports that succeeded
    clipboard,          \* the system clipboard, as pyperclip.paste() returns it
    nCopies,            \* copies the user made so far
    nToggles,           \* checkbox toggles so far, per window
    tr_last_clip,       \* TranslatorPopup.last_clip
    tr_text_area,       \* TranslatorPopup.text_area: its entries
    ollama_checkbox,    \* TranslatorPopup.ollama_checkbox checked
    tr_tick,            \* TranslatorPopup.timer: parity of the ticks, and what the last tick read
    tr_calls,           \* TranslatorPopup: what check_clipboard translated or displayed, in order
    last_clip,          \* app.py: AIAssistant.last_clip
    clipboard_timer,    \* app.py: AIAssistant.clipboard_timer is active
    app_tick,           \* app.py: parity of clipboard_timer's ticks, and what the last tick read
    app_calls,          \* app.py: the texts passed to translate_text, in order
    latest_answer,      \* app.py: the web server's global latest_answer
    polly_client,       \* app.py: polly_client is not None
    web,                \* app.py: the web server's requests, one handler thread each
    writes,             \* app.py: the requests that assigned latest_answer, in order
    raw_text,           \* format_ollama_answer: its argument
    formatted,          \* format_ollama_answer: what it returned (None before the call)
    tr_requests,        \* inference requests sent by TranslatorPopup.ask_ollama
    fault               \* the place an exception left a UI handler from ("" if none did)

fbVars  == <<extractBucket, bucket, uploader, events, upload_btn, ask_btn,
             status_label, pdf_extracted_text, current_pdf_key, answer_area,
             requests, nUploads, nAsks>>
appVars == <<appBuckets, appThreads, appEvents, pdf_text, text_area>>
clipVars == <<program, libs, clipboard, nCopies, nToggles, tr_last_clip, tr_text_area,
              ollama_checkbox, tr_tick, tr_calls, last_clip, clipboard_timer,
              app_tick, app_calls>>
webVars == <<latest_answer, polly_client, web, writes>>
fmtVars == <<raw_text, formatted>>
askVars == <<tr_requests, fault>>
auxVars == <<clipVars, webVars, fmtVars, askVars>>
vars    == <<fbVars, appVars, auxVars>>

----------------------------------------------------------------------------
(* Bounds *)

MaxPages == 2
MaxUploads == 2
MaxAsks == 1
MaxAppUploads == 2

----------------------------------------------------------------------------
(* Strings *)

NL == "\n"
\* the blank-line separator "\n\n"
SEP == <<NL, NL>>
EmptyStr == <<>>
\* Python None, where a str is expected
None == <<"<None>">>

Hello == <<"H", "e", "l", "l", "o">>
NotesPdfPath == <<"/", "d", "/", "n", "o", "t", "e", "s", ".", "p", "d", "f">>
NotesPdf == <<"n", "o", "t", "e", "s", ".", "p", "d", "f">>
NotesTxt == <<"n", "o", "t", "e", "s", ".", "t", "x", "t">>
NotesPdfBak == <<"n", "o", "t", "e", "s", ".", "p", "d", "f", "2">>
ScanPath == <<"s", "c", "a", "n">>
DotTxt == <<".", "t", "x", "t">>

Truthy(s) == Len(s) > 0

\* str.rfind(ch) + 1: position (1-based) of the last ch in s, 0 if none
RFind(ch, s) ==
    LET hits == {i \in 1..Len(s) : s[i] = ch}
    IN  IF hits = {} THEN 0 ELSE CHOOSE i \in hits : \A j \in hits : j <= i

IsPrefix(p, s) == Len(p) <= Len(s) /\ SubSeq(s, 1, Len(p)) = p

\* os.path.basename(path): what follows the last "/"
Basename(path) == SubSeq(path, RFind("/", path) + 1, Len(path))

\* mutation of Stem: the suffix is kept
StemKeepSuffix(name) == name
\* Path(filename).stem: the name up to its last ".", unless that dot is the
\* first or the last character
Stem(name) ==
    LET i == RFind(".", name)
    IN  IF 1 < i /\ i < Len(name) THEN SubSeq(name, 1, i - 1) ELSE name

\* key = f"{Path(filename).stem}.txt"
ExtractKey(filename) == Stem(filename) \o DotTxt

----------------------------------------------------------------------------
(* PDF files on disk: what page.extract_text() yields for a page. The file is    *)
(* read as the run goes: a thread's pages field holds the pages met so far.     *)

PageNone  == [kind |-> "none",  val |-> EmptyStr]
PageRaise == [kind |-> "raise", val |-> EmptyStr]
PageText(s) == [kind |-> "text", val |-> s]

PageOutcomes == {PageNone, PageRaise, PageText(Hello)}

Paths == {NotesPdfPath, ScanPath}

\* page_text = p.extract_text() or ""
PageTextOrEmpty(page) == IF page.kind = "text" /\ Truthy(page.val) THEN page.val ELSE EmptyStr

\* text += page_text + "\n\n"
\* mutation of AddPage: the separator goes between pages only
AddPageJoin(text, page) ==
    IF text = EmptyStr THEN PageTextOrEmpty(page) ELSE text \o SEP \o PageTextOrEmpty(page)
AddPage(text, page) == text \o PageTextOrEmpty(page) \o SEP

----------------------------------------------------------------------------
(* Signals and the call log of one run *)

Progress(kind) == [sig |-> "progress", kind |-> kind, text |-> EmptyStr, key |-> EmptyStr]
Extracted(text, key) == [sig |-> "extracted", kind |-> "", text |-> text, key |-> key]
Call(op, key, body) == [sig |-> "call", kind |-> op, text |-> body, key |-> key]
\* the call of op just logged raised an exception
Raised(op) == [sig |-> "raise", kind |-> op, text |-> EmptyStr, key |-> EmptyStr]
NoResp == [ok |-> FALSE, contents |-> {}]

IdleThread ==
    [pc |-> "idle", file_path |-> EmptyStr, filename |-> EmptyStr, resp |-> NoResp,
     already |-> FALSE, text |-> EmptyStr, pages |-> <<>>, log |-> <<>>]

----------------------------------------------------------------------------
(* FINALBOT/main.py: UploadThread.run, one action per external call *)

\* self.progress.emit(...) / self.extracted_text_signal.emit(...): the signal is
\* queued for the UI thread; the run's log records it
Emit(t, e) == [t EXCEPT !.log = Append(@, e)]
Failed(t, op) == [t EXCEPT !.log = Append(@, Raised(op))]
\* run has returned
Returned(t) == [t EXCEPT !.pc = "done"]
Logged(t, op, key, body) == [t EXCEPT !.log = Append(@, Call(op, key, body))]

\* resp['Contents'] of list_objects_v2(Bucket, Prefix=filename)
Contents(filename) == {k \in bucket : IsPrefix(filename, k)}

\* the loop over resp['Contents']: already = True on an exact key match
\* mutation of Already: no key ever matches
AlreadyNever(filename, contents) == FALSE
Already(filename, contents) == \E k \in contents : k = filename

\* if text and AWS_EXTRACT_BUCKET:
\* mutation of ShouldStore: the text is not tested
ShouldStoreIgnoreText(text, configured) == configured
ShouldStore(text, configured) == Truthy(text) /\ configured

\* the except of lines 144-146: the error is dropped and run goes on to line 148
\* mutation of AfterListError: the error ends the run
AfterListErrorAbort(t) == Returned(t)
AfterListError(t) == [t EXCEPT !.pc = "upload"]

\* lines 134-146: filename and the duplicate check; any error leaves already = False
FB_CheckDuplicate ==
    /\ uploader.pc = "check"
    /\ \E ok \in BOOLEAN :
         LET filename == Basename(uploader.file_path)
             t1 == Logged([uploader EXCEPT !.filename = filename],
                          "list_objects_v2", filename, EmptyStr)
         IN  IF ok
             THEN uploader' = [t1 EXCEPT !.pc = "upload",
                                 !.resp = [ok |-> TRUE, contents |-> Contents(filename)],
                                 !.already = Already(filename, Contents(filename))]
             ELSE uploader' = AfterListError(Failed(t1, "list_objects_v2"))
    /\ UNCHANGED <<extractBucket, bucket, events, upload_btn, ask_btn,
                   status_label, pdf_extracted_text, current_pdf_key, answer_area,
                   requests, nUploads, nAsks, appVars, auxVars>>

\* lines 148-149: the duplicate is skipped
FB_SkipUpload ==
    /\ uploader.pc = "upload"
    /\ uploader.already
    /\ uploader' = [Emit(uploader, Progress("skip")) EXCEPT !.pc = "open"]
    /\ events' = Append(events, Progress("skip"))
    /\ UNCHANGED <<extractBucket, bucket, upload_btn, ask_btn,
                   status_label, pdf_extracted_text, current_pdf_key, answer_area,
                   requests, nUploads, nAsks, appVars, auxVars>>

\* where run continues after upload_file raised: the outer except (line 180)
AfterUploadError(t) == Returned(t)

\* lines 150-152, and 180-182 when upload_file raises
FB_UploadFile ==
    /\ uploader.pc = "upload"
    /\ ~uploader.already
    /\ \E ok \in BOOLEAN :
         LET t1 == Logged(uploader, "upload_file", uploader.filename, EmptyStr)
         IN  IF ok
             THEN /\ bucket' = bucket \cup {uploader.filename}
                  /\ uploader' = [Emit(t1, Progress("uploaded")) EXCEPT !.pc = "open"]
                  /\ events' = Append(events, Progress("uploaded"))
             ELSE /\ bucket' = bucket
                  /\ uploader' = AfterUploadError(
                                    Emit(Failed(t1, "upload_file"), Progress("thread_error")))
                  /\ events' = Append(events, Progress("thread_error"))
    /\ UNCHANGED <<extractBucket, upload_btn, ask_btn,
                   status_label, pdf_extracted_text, current_pdf_key, answer_area,
                   requests, nUploads, nAsks, appVars, auxVars>>

\* the except of lines 162-164: what text becomes when extraction raised
\* mutation of TextAfterExtractError: the text read so far is kept
TextAfterExtractErrorKeep(text) == text
TextAfterExtractError(text) == EmptyStr

\* lines 155-157: text = "", reader = PdfReader(self.file_path), which may raise
FB_OpenPdf ==
    /\ uploader.pc = "open"
    /\ \E opens \in BOOLEAN :
         LET t1 == Logged([uploader EXCEPT !.text = EmptyStr], "PdfReader", EmptyStr, EmptyStr)
         IN  IF opens
             THEN /\ uploader' = [t1 EXCEPT !.pc = "pages"]
                  /\ events' = events
             ELSE /\ uploader' = [Emit(Failed(t1, "PdfReader"), Progress("extract_failed"))
                                    EXCEPT !.pc = "store", !.text = TextAfterExtractError(@)]
                  /\ events' = Append(events, Progress("extract_failed"))
    /\ UNCHANGED <<extractBucket, bucket, upload_btn, ask_btn,
                   status_label, pdf_extracted_text, current_pdf_key, answer_area,
                   requests, nUploads, nAsks, appVars, auxVars>>

\* lines 158-164: one iteration of the loop over reader.pages
FB_ExtractPage ==
    /\ uploader.pc = "pages"
    /\ Len(uploader.pages) < MaxPages
    /\ \E page \in PageOutcomes :
         LET t1 == Logged([uploader EXCEPT !.pages = Append(@, page)],
                          "extract_text", EmptyStr, EmptyStr)
         IN  IF page.kind = "raise"
             THEN /\ uploader' = [Emit(Failed(t1, "extract_text"), Progress("extract_failed"))
                                    EXCEPT !.pc = "store", !.text = TextAfterExtractError(@)]
                  /\ events' = Append(events, Progress("extract_failed"))
             ELSE /\ uploader' = [t1 EXCEPT !.text = AddPage(@, page)]
                  /\ events' = events
    /\ UNCHANGED <<extractBucket, bucket, upload_btn, ask_btn,
                   status_label, pdf_extracted_text, current_pdf_key, answer_area,
                   requests, nUploads, nAsks, appVars, auxVars>>

\* the loop over reader.pages ends: the file has no further page
FB_EndOfPages ==
    /\ uploader.pc = "pages"
    /\ uploader' = [uploader EXCEPT !.pc = "store"]
    /\ UNCHANGED <<extractBucket, bucket, events, upload_btn, ask_btn,
                   status_label, pdf_extracted_text, current_pdf_key, answer_area,
                   requests, nUploads, nAsks, appVars, auxVars>>

\* the key carried by extracted_text_signal after put_object raised (line 175)
\* mutation of KeyAfterStoreError: the derived key is sent although nothing was stored
KeyAfterStoreErrorDerived(key) == key
KeyAfterStoreError(key) == EmptyStr
\* the text carried by extracted_text_signal after put_object raised (line 175)
\* mutation of TextAfterStoreError: the text is dropped
TextAfterStoreErrorEmpty(text) == EmptyStr
TextAfterStoreError(text) == text

\* lines 171-172: the signals emitted once put_object has returned, in order
\* mutation of StoredSignals: the notification is emitted before the progress message
StoredSignalsNotifyFirst(text, key) == <<Extracted(text, key), Progress("stored")>>
StoredSignals(text, key) == <<Progress("stored"), Extracted(text, key)>>

\* lines 166-178: the secondary storage step and the extracted-text notification
FB_StoreExtracted ==
    /\ uploader.pc = "store"
    /\ IF ShouldStore(uploader.text, extractBucket)
       THEN \E ok \in BOOLEAN :
              LET key == ExtractKey(uploader.filename)
                  t1  == Logged(uploader, "put_object", key, uploader.text)
              IN  IF ok
                  THEN LET e1 == StoredSignals(uploader.text, key)[1]
                           e2 == StoredSignals(uploader.text, key)[2]
                       IN  /\ uploader' = Returned(Emit(Emit(t1, e1), e2))
                           /\ events' = events \o <<e1, e2>>
                  ELSE LET e1 == Progress("store_failed")
                           e2 == Extracted(TextAfterStoreError(uploader.text),
                                           KeyAfterStoreError(key))
                       IN  /\ uploader' = Returned(Emit(Emit(Failed(t1, "put_object"), e1), e2))
                           /\ events' = events \o <<e1, e2>>
       ELSE LET e2 == Extracted(uploader.text, EmptyStr)
            IN  /\ uploader' = Returned(Emit(uploader, e2))
                /\ events' = Append(events, e2)
    /\ UNCHANGED <<extractBucket, bucket, upload_btn, ask_btn,
                   status_label, pdf_extracted_text, current_pdf_key, answer_area,
                   requests, nUploads, nAsks, appVars, auxVars>>

----------------------------------------------------------------------------
(* FINALBOT/main.py: DocumentQAPopup, the UI thread *)

Whitespace == {NL, " "}

\* str.strip()
RECURSIVE LStrip(_)
LStrip(s) == IF s # <<>> /\ Head(s) \in Whitespace THEN LStrip(Tail(s)) ELSE s
RECURSIVE RStrip(_)
RStrip(s) ==
    IF s # <<>> /\ s[Len(s)] \in Whitespace THEN RStrip(SubSeq(s, 1, Len(s) - 1)) ELSE s
Strip(s) == LStrip(RStrip(s))

\* s[:n]
Take(s, n) == SubSeq(s, 1, IF Len(s) < n THEN Len(s) ELSE n)

PreviewLen == 500
Entry(kind, text) == [kind |-> kind, text |-> text]

\* "Uploaded" in msg or "already exists" in msg, for the messages run emits
\* (file names and exception texts are taken not to hold these words)
EnablesAsk(msg) == msg.kind \in {"uploaded", "skip"}

\* if not self.pdf_extracted_text: (line 574)
NoContext(text) == ~Truthy(text)

\* line 544: self.upload_btn.setEnabled(False) when a worker is started
\* mutation of EnabledWhileUploading: the button is left as it was
EnabledWhileUploadingKept(enabled) == enabled
EnabledWhileUploading(enabled) == FALSE

\* lines 536-548; the file dialog yields no valid file, or a path to a file on disk
FB_select_file ==
    /\ upload_btn
    /\ nUploads < MaxUploads
    /\ nUploads' = nUploads + 1
    /\ \/ /\ status_label' = "no_valid_file"
          /\ UNCHANGED <<upload_btn, uploader>>
       \/ \E path \in Paths :
            /\ status_label' = "uploading"
            /\ upload_btn' = EnabledWhileUploading(upload_btn)
            /\ uploader' = [IdleThread EXCEPT !.pc = "check", !.file_path = path]
    /\ UNCHANGED <<extractBucket, bucket, events, ask_btn,
                   pdf_extracted_text, current_pdf_key, answer_area,
                   requests, nAsks, appVars, auxVars>>

\* lines 550-555, run on the UI thread for the next queued progress signal
FB_on_upload_progress ==
    /\ events # <<>>
    /\ Head(events).sig = "progress"
    /\ events' = Tail(events)
    /\ status_label' = Head(events).kind
    /\ ask_btn' = (ask_btn \/ EnablesAsk(Head(events)))
    /\ UNCHANGED <<extractBucket, bucket, uploader, upload_btn,
                   pdf_extracted_text, current_pdf_key, answer_area,
                   requests, nUploads, nAsks, appVars, auxVars>>

\* lines 557-568, run on the UI thread for the next queued extracted-text signal
FB_on_extracted_text ==
    /\ events # <<>>
    /\ Head(events).sig = "extracted"
    /\ events' = Tail(events)
    /\ LET text   == Head(events).text
           s3_key == Head(events).key
           sample == Strip(Take(text, PreviewLen))
       IN  /\ pdf_extracted_text' = text
           /\ current_pdf_key' = IF Truthy(s3_key) THEN s3_key ELSE current_pdf_key
           /\ answer_area' = Append(answer_area,
                  IF Truthy(text)
                  THEN Entry(IF Truthy(sample) THEN "preview" ELSE "preview_dash", EmptyStr)
                  ELSE Entry("no_extracted_text", EmptyStr))
    /\ status_label' = "pdf_loaded"
    /\ upload_btn' = TRUE
    /\ ask_btn' = TRUE
    /\ UNCHANGED <<extractBucket, bucket, uploader,
                   requests, nUploads, nAsks, appVars, auxVars>>

Questions == {EmptyStr, <<" ">>, <<"q">>}

----------------------------------------------------------------------------
(* FINALBOT: the specification *)

\* the objects already in AWS_BUCKET_NAME: a duplicate of scan, and a key that
\* notes.pdf is only a prefix of
InitialBucket == {ScanPath, NotesPdfBak}

\* no tick yet: nothing read
NoTick == [phase |-> 0, read |-> None]

\* TranslatorPopup.__init__ (main.py 298-309) and AIAssistant.__init__ (app.py 459-464)
ClipIdle ==
    /\ libs = [pyperclip |-> TRUE, translator |-> TRUE]
    /\ clipboard = EmptyStr
    /\ nCopies = 0
    /\ nToggles = [tr |-> 0, app |-> 0]
    /\ tr_last_clip = EmptyStr
    /\ tr_text_area = <<>>
    /\ ollama_checkbox = FALSE
    /\ tr_tick = NoTick
    /\ tr_calls = <<>>
    /\ last_clip = EmptyStr
    /\ clipboard_timer = FALSE
    /\ app_tick = NoTick
    /\ app_calls = <<>>

\* app.py 68, 88: the web server before any request
WebIdle ==
    /\ latest_answer = EmptyStr
    /\ polly_client = FALSE
    /\ web = <<>>
    /\ writes = <<>>

\* format_ollama_answer is not being called
FmtIdle ==
    /\ raw_text = EmptyStr
    /\ formatted = None

\* no question asked yet
AskIdle ==
    /\ tr_requests = <<>>
    /\ fault = ""

AuxIdle == ClipIdle /\ WebIdle /\ FmtIdle /\ AskIdle

AppIdle ==
    /\ appBuckets = [docs |-> FALSE, extracts |-> FALSE]
    /\ appThreads = <<>>
    /\ appEvents = <<>>
    /\ pdf_text = EmptyStr
    /\ text_area = <<>>

Init ==
    /\ extractBucket \in BOOLEAN
    /\ bucket = InitialBucket
    /\ uploader = IdleThread
    /\ events = <<>>
    /\ upload_btn = TRUE
    /\ ask_btn = FALSE
    /\ status_label = "no_document"
    /\ pdf_extracted_text = EmptyStr
    /\ current_pdf_key = None
    /\ answer_area = <<>>
    /\ requests = <<>>
    /\ nUploads = 0
    /\ nAsks = 0
    /\ AppIdle
    /\ AuxIdle
    /\ program = "FINALBOT/main.py"

Next ==
    \/ FB_select_file
    \/ FB_CheckDuplicate
    \/ FB_SkipUpload
    \/ FB_UploadFile
    \/ FB_OpenPdf
    \/ FB_ExtractPage
    \/ FB_EndOfPages
    \/ FB_StoreExtracted
    \/ FB_on_upload_progress
    \/ FB_on_extracted_text

\* the upload pipeline: the worker, the slots its signals run, and select_file
Spec == Init /\ [][Next]_vars


----------------------------------------------------------------------------
(* app.py: UploadThread.run and the AIAssistant slots *)

AppThread(path) ==
    [pc |-> "open", file_path |-> path, text |-> EmptyStr, pages |-> <<>>,
     failed |-> "", reported |-> FALSE, emitted |-> FALSE]

\* the except of lines 406-407: the run reports the error and returns; whether
\* it still emits extracted_text
EmitsAfterError(op) == FALSE

\* thread i's call of op raised: lines 406-407
AppError(i, op) ==
    /\ appThreads' = [appThreads EXCEPT ![i].pc = "done", ![i].failed = op,
                                        ![i].reported = TRUE,
                                        ![i].emitted = EmitsAfterError(op)]
    /\ appEvents' = appEvents \o <<Progress("error")>>
                      \o (IF EmitsAfterError(op)
                          THEN <<Extracted(appThreads[i].text, EmptyStr)>> ELSE <<>>)

\* line 405: self.extracted_text.emit(text), after the progress messages msgs
AppFinish(i, msgs) ==
    /\ appThreads' = [appThreads EXCEPT ![i].pc = "done", ![i].emitted = TRUE]
    /\ appEvents' = appEvents \o msgs \o <<Extracted(appThreads[i].text, EmptyStr)>>

\* lines 390-391: text = "", reader = PdfReader(self.file_path)
App_OpenPdf ==
    /\ \E i \in 1..Len(appThreads) :
         /\ appThreads[i].pc = "open"
         /\ \E opens \in BOOLEAN :
              IF opens
              THEN /\ appThreads' = [appThreads EXCEPT ![i].pc = "pages"]
                   /\ appEvents' = appEvents
              ELSE AppError(i, "PdfReader")
    /\ UNCHANGED <<fbVars, auxVars, appBuckets, pdf_text, text_area>>

\* lines 392-393: one iteration of the loop over reader.pages
App_ExtractPage ==
    /\ \E i \in 1..Len(appThreads) :
         /\ appThreads[i].pc = "pages"
         /\ Len(appThreads[i].pages) < MaxPages
         /\ \E page \in PageOutcomes :
              IF page.kind = "raise"
              THEN AppError(i, "extract_text")
              ELSE /\ appThreads' = [appThreads EXCEPT ![i].pages = Append(@, page),
                                                       ![i].text = AddPage(@, page)]
                   /\ appEvents' = appEvents
    /\ UNCHANGED <<fbVars, auxVars, appBuckets, pdf_text, text_area>>

\* the loop ends; line 396: if AWS_BUCKET_NAME, else straight to line 405
App_EndOfPages ==
    /\ \E i \in 1..Len(appThreads) :
         /\ appThreads[i].pc = "pages"
         /\ IF appBuckets.docs
            THEN /\ appThreads' = [appThreads EXCEPT ![i].pc = "upload"]
                 /\ appEvents' = appEvents
            ELSE AppFinish(i, <<>>)
    /\ UNCHANGED <<fbVars, auxVars, appBuckets, pdf_text, text_area>>

\* lines 397-400: upload_file, the progress message, and whether to store the text
App_UploadFile ==
    /\ \E i \in 1..Len(appThreads) :
         /\ appThreads[i].pc = "upload"
         /\ \E ok \in BOOLEAN :
              IF ~ok
              THEN AppError(i, "upload_file")
              ELSE IF ShouldStore(appThreads[i].text, appBuckets.extracts)
              THEN /\ appThreads' = [appThreads EXCEPT ![i].pc = "store"]
                   /\ appEvents' = Append(appEvents, Progress("uploaded"))
              ELSE AppFinish(i, <<Progress("uploaded")>>)
    /\ UNCHANGED <<fbVars, auxVars, appBuckets, pdf_text, text_area>>

\* lines 401-405: put_object, its progress message, and the notification
App_StoreExtracted ==
    /\ \E i \in 1..Len(appThreads) :
         /\ appThreads[i].pc = "store"
         /\ \E ok \in BOOLEAN :
              IF ok THEN AppFinish(i, <<Progress("saved")>>)
                    ELSE AppError(i, "put_object")
    /\ UNCHANGED <<fbVars, auxVars, appBuckets, pdf_text, text_area>>

\* lines 575-582: the dialog yields a path (an empty path changes nothing)
App_upload_pdf ==
    /\ Len(appThreads) < MaxAppUploads
    /\ \E path \in Paths :
         /\ text_area' = Append(text_area, "uploading")
         /\ appThreads' = Append(appThreads, AppThread(path))
    /\ UNCHANGED <<fbVars, auxVars, appBuckets, appEvents, pdf_text>>

\* line 580: the lambda connected to progress
App_on_progress ==
    /\ appEvents # <<>>
    /\ Head(appEvents).sig = "progress"
    /\ appEvents' = Tail(appEvents)
    /\ text_area' = Append(text_area, Head(appEvents).kind)
    /\ UNCHANGED <<fbVars, auxVars, appBuckets, appThreads, pdf_text>>

\* line 585: self.pdf_text = text
\* mutation of LoadedText: a text already held is kept
LoadedTextKeepsHeld(held, text) == IF Truthy(held) THEN held ELSE text
LoadedText(held, text) == text

\* lines 584-586
App_on_pdf_loaded ==
    /\ appEvents # <<>>
    /\ Head(appEvents).sig = "extracted"
    /\ appEvents' = Tail(appEvents)
    /\ pdf_text' = LoadedText(pdf_text, Head(appEvents).text)
    /\ text_area' = Append(text_area, "pdf_loaded")
    /\ UNCHANGED <<fbVars, auxVars, appBuckets, appThreads>>

FBIdle ==
    /\ extractBucket = FALSE
    /\ bucket = {}
    /\ uploader = IdleThread
    /\ events = <<>>
    /\ upload_btn = TRUE
    /\ ask_btn = FALSE
    /\ status_label = "no_document"
    /\ pdf_extracted_text = EmptyStr
    /\ current_pdf_key = None
    /\ answer_area = <<>>
    /\ requests = <<>>
    /\ nUploads = 0
    /\ nAsks = 0

InitApp ==
    /\ FBIdle
    /\ AuxIdle
    /\ program = "app.py"
    /\ appBuckets \in [docs : BOOLEAN, extracts : BOOLEAN]
    /\ appThreads = <<>>
    /\ appEvents = <<>>
    /\ pdf_text = EmptyStr
    /\ text_area = <<>>

NextApp ==
    \/ App_upload_pdf
    \/ App_OpenPdf
    \/ App_ExtractPage
    \/ App_EndOfPages
    \/ App_UploadFile
    \/ App_StoreExtracted
    \/ App_on_progress
    \/ App_on_pdf_loaded

\* app.py: the upload workers and the slots their signals run
SpecApp == InitApp /\ [][NextApp]_vars

\* app.py started with AWS_BUCKET_NAME unset: line 396 skips the storage calls
InitAppLocal ==
    /\ InitApp
    /\ appBuckets = [docs |-> FALSE, extracts |-> FALSE]

NextAppLocal ==
    \/ App_upload_pdf
    \/ App_OpenPdf
    \/ App_ExtractPage
    \/ App_EndOfPages
    \/ App_on_progress
    \/ App_on_pdf_loaded

\* app.py without a storage bucket: the upload workers only extract and notify
SpecAppLocal == InitAppLocal /\ [][NextAppLocal]_vars

----------------------------------------------------------------------------
(* What a run did, read off its log *)

CallIdx(t, op) == {i \in 1..Len(t.log) : t.log[i].sig = "call" /\ t.log[i].kind = op}
Called(t, op) == CallIdx(t, op) # {}
\* the call of op raised
RaisedIn(t, op) == \E i \in 1..Len(t.log) : t.log[i] = Raised(op)
Reported(t, kind) == \E i \in 1..Len(t.log) : t.log[i] = Progress(kind)
ExtractedIdx(t) == {i \in 1..Len(t.log) : t.log[i].sig = "extracted"}
Notified(t) == ExtractedIdx(t) # {}
Finished(t) == t.pc = "done"
\* the run got as far as the secondary storage step and completed it
PastStore(t) == Finished(t) /\ ~RaisedIn(t, "upload_file")

----------------------------------------------------------------------------
(* Claims *)

\* C1 (as claimed): whenever upload_file raises, the failure is reported as a
\* progress message and the run still goes on to extract the local PDF and
\* emits the extracted-text notification.
C1_UploadFailureStillExtracts ==
    (Finished(uploader) /\ RaisedIn(uploader, "upload_file"))
        => /\ Reported(uploader, "thread_error")
           /\ Called(uploader, "PdfReader")
           /\ Notified(uploader)

\* C2: when the duplicate check returned an object whose key is the file's
\* basename, upload_file is never called in that run, the "skipping upload"
\* message is emitted, and extraction is still attempted.
C2_IsDuplicate(t) ==
    /\ t.pc \notin {"idle", "check"}
    /\ t.resp.ok
    /\ Basename(t.file_path) \in t.resp.contents
C2_DuplicateNotReuploaded ==
    C2_IsDuplicate(uploader)
        => /\ ~Called(uploader, "upload_file")
           /\ (uploader.pc # "upload" => Reported(uploader, "skip"))
           /\ (Finished(uploader) => Called(uploader, "PdfReader") /\ Notified(uploader))
C2_Witness ==
    /\ C2_IsDuplicate(uploader)
    /\ Finished(uploader)
    /\ Reported(uploader, "skip")
    /\ Called(uploader, "PdfReader")

\* the last entry of the run's log
LastLogged(t) == t.log[Len(t.log)]
\* every page met so far yielded no text, and there is at least one
AllPagesBlank(t) ==
    /\ Len(t.pages) >= 1
    /\ \A i \in 1..Len(t.pages) : t.pages[i].kind = "none"

\* C3 (as claimed): for a PDF with at least one page whose pages all yield no
\* text, the worker's extracted text is the empty string, put_object is not
\* called, the notification carries an empty key, and ask_question afterwards
\* sends no inference request but shows the no-text message.
C3_ScannedPdfIsNoContext ==
    /\ (Finished(uploader) /\ AllPagesBlank(uploader) /\ Notified(uploader))
          => /\ uploader.text = EmptyStr
             /\ ~Called(uploader, "put_object")
             /\ LastLogged(uploader) = Extracted(EmptyStr, EmptyStr)
    /\ \A i \in 1..Len(requests) : Strip(requests[i].context) # EmptyStr

\* C4: in a run that completes the secondary storage step, put_object is
\* attempted exactly when the extracted text is non-empty and
\* AWS_EXTRACT_BUCKET is configured, whether the file was uploaded or skipped.
C4_StoreIffTextAndBucket ==
    PastStore(uploader)
        => (Called(uploader, "put_object") <=> (Len(uploader.text) > 0 /\ extractBucket))
C4_Witness ==
    /\ PastStore(uploader)
    /\ Called(uploader, "put_object")
    /\ Reported(uploader, "skip")

\* C5: if the extracted text is empty, put_object is never called and the
\* extracted_text_signal carries an empty key; the emitted key is non-empty
\* only when put_object was called and returned without error.
C5_EmptyTextNoStoreNoKey ==
    \A i \in ExtractedIdx(uploader) :
        LET e == uploader.log[i]
        IN  /\ e.text = EmptyStr => (~Called(uploader, "put_object") /\ e.key = EmptyStr)
            /\ e.key # EmptyStr => (Called(uploader, "put_object")
                                     /\ ~RaisedIn(uploader, "put_object"))
C5_Witness ==
    /\ Finished(uploader)
    /\ extractBucket
    /\ uploader.pages = <<PageText(Hello), PageRaise>>
    /\ LastLogged(uploader) = Extracted(EmptyStr, EmptyStr)

\* C6: when put_object raises, a failure progress message is emitted and the
\* extracted_text_signal is still emitted with the full extracted text and an
\* empty key; when it succeeds, the signal carries the text and the derived key.
C6_DerivedKey(t) ==
    IF t.file_path = NotesPdfPath THEN NotesTxt ELSE <<"s", "c", "a", "n", ".", "t", "x", "t">>
C6_StoreOutcomeNotified ==
    (Finished(uploader) /\ Called(uploader, "put_object"))
        => LET n    == Len(uploader.log)
               body == uploader.log[CHOOSE i \in CallIdx(uploader, "put_object") : TRUE].text
           IN  /\ Len(body) > 0
               /\ IF RaisedIn(uploader, "put_object")
                  THEN /\ uploader.log[n - 1] = Progress("store_failed")
                       /\ uploader.log[n] = Extracted(body, EmptyStr)
                  ELSE /\ uploader.log[n - 1] = Progress("stored")
                       /\ uploader.log[n] = Extracted(body, C6_DerivedKey(uploader))
C6_Witness ==
    /\ Finished(uploader)
    /\ RaisedIn(uploader, "put_object")
    /\ LastLogged(uploader) = Extracted(Hello \o SEP, EmptyStr)

\* C8: an exception while opening the PDF or extracting a page is caught in the
\* run: the text is reset to the empty string (the text of pages already read
\* is dropped), a warning progress message is emitted, and the run goes on to
\* emit the extracted_text_signal with empty text and empty key.
C8_ExtractionRaised(t) == RaisedIn(t, "PdfReader") \/ RaisedIn(t, "extract_text")
C8_ExtractionFailureDegrades ==
    C8_ExtractionRaised(uploader)
        => /\ uploader.text = EmptyStr
           /\ Reported(uploader, "extract_failed")
           /\ uploader.pc \in {"store", "done"}
           /\ Finished(uploader) => /\ LastLogged(uploader) = Extracted(EmptyStr, EmptyStr)
                                    /\ ~Called(uploader, "put_object")
C8_Witness ==
    /\ Finished(uploader)
    /\ uploader.pages = <<PageText(Hello), PageRaise>>
    /\ RaisedIn(uploader, "extract_text")
    /\ Notified(uploader)

\* T_i: the text of page i, None counted as empty
C9_T(page) == IF page.kind = "text" THEN page.val ELSE EmptyStr
\* T_1, separator, T_2, ..., T_N
RECURSIVE C9_Joined(_)
C9_Joined(ps) ==
    IF ps = <<>> THEN EmptyStr
    ELSE IF Len(ps) = 1 THEN C9_T(ps[1])
    ELSE C9_T(Head(ps)) \o SEP \o C9_Joined(Tail(ps))
\* T_1, separator, T_2, separator, ..., T_N, separator
RECURSIVE C9_EachFollowed(_)
C9_EachFollowed(ps) ==
    IF ps = <<>> THEN EmptyStr
    ELSE C9_T(Head(ps)) \o SEP \o C9_EachFollowed(Tail(ps))
\* the run has read all of the file's pages, none raising
C9_Extracted(t) ==
    /\ t.pc \in {"store", "done"}
    /\ Called(t, "PdfReader")
    /\ ~C8_ExtractionRaised(t)

\* C9 (as claimed): for a PDF with N pages where page i yields T_i, the
\* extracted text is T_1, separator, T_2, ..., T_N: the T_i in page order with
\* a blank line between consecutive pages.
C9_TextIsPagesJoined ==
    C9_Extracted(uploader) => uploader.text = C9_Joined(uploader.pages)

\* C9 (amended): the extracted text is the T_i in page order, each one,
\* the last included, followed by the blank-line separator.
C9_TextIsPagesEachFollowedBySeparator ==
    C9_Extracted(uploader) => uploader.text = C9_EachFollowed(uploader.pages)
C9_Witness ==
    /\ C9_Extracted(uploader)
    /\ uploader.pages = <<PageNone, PageText(Hello)>>
    /\ uploader.text = SEP \o Hello \o SEP

\* C9, app.py's worker (lines 389-393), under SpecApp: the text of a thread that
\* read all its pages is each T_i followed by the separator.
C9_AppTextIsPagesEachFollowedBySeparator ==
    \A i \in 1..Len(appThreads) :
        appThreads[i].failed \notin {"PdfReader", "extract_text"}
            => appThreads[i].text = C9_EachFollowed(appThreads[i].pages)

\* every storage call of the run returned
C10_AllSucceeded(t) ==
    ~(\E i \in 1..Len(t.log) : t.log[i].sig = "raise")
C10_Scenario(t) ==
    /\ Finished(t)
    /\ t.file_path = NotesPdfPath
    /\ t.pages = <<PageText(Hello), PageNone>>
    /\ NotesPdf \notin t.resp.contents
    /\ extractBucket
    /\ C10_AllSucceeded(t)

\* C10: uploading notes.pdf (page 1 "Hello", page 2 no text) with no object of
\* that name, an extract bucket configured and every storage call succeeding
\* gives exactly one upload_file call with key notes.pdf, the extracted text
\* "Hello\n\n\n\n", one put_object call with key notes.txt, and an
\* extracted_text_signal carrying that text and the key notes.txt.
C10_EndToEnd ==
    C10_Scenario(uploader)
        => LET ups  == CallIdx(uploader, "upload_file")
               puts == CallIdx(uploader, "put_object")
               text == Hello \o <<NL, NL, NL, NL>>
           IN  /\ Cardinality(ups) = 1
               /\ \A i \in ups : uploader.log[i].key = NotesPdf
               /\ uploader.text = text
               /\ Cardinality(puts) = 1
               /\ \A i \in puts : uploader.log[i].key = NotesTxt /\ uploader.log[i].text = text
               /\ Cardinality(ExtractedIdx(uploader)) = 1
               /\ LastLogged(uploader) = Extracted(text, NotesTxt)
C10_Witness ==
    /\ C10_Scenario(uploader)
    /\ NotesPdf \in bucket
    /\ LastLogged(uploader) = Extracted(Hello \o <<NL, NL, NL, NL>>, NotesTxt)

\* C7 (as claimed): in app.py a failure of upload_file or of put_object is
\* reported as a progress message and the extracted text is still delivered:
\* extracted_text is emitted, and on_pdf_loaded sets pdf_text to it.
C7_StorageFailed(t) == t.pc = "done" /\ t.failed \in {"upload_file", "put_object"}
C7_AppStorageFailureStillDelivers ==
    \A i \in 1..Len(appThreads) :
        C7_StorageFailed(appThreads[i])
            => /\ appThreads[i].reported
               /\ appThreads[i].emitted
               /\ (appEvents = <<>> /\ Len(appThreads) = 1) => pdf_text = appThreads[i].text

\* C11: an error raised by the duplicate check is swallowed: the file is
\* treated as not a duplicate and upload_file is attempted in the same run.
C11_ListErrorFallsThroughToUpload ==
    RaisedIn(uploader, "list_objects_v2")
        => /\ ~uploader.already
           /\ ~Reported(uploader, "skip")
           /\ uploader.pc # "upload" => Called(uploader, "upload_file")
C11_Witness ==
    /\ RaisedIn(uploader, "list_objects_v2")
    /\ uploader.file_path = ScanPath
    /\ ScanPath \in bucket
    /\ Called(uploader, "upload_file")
    /\ Finished(uploader)

----------------------------------------------------------------------------
(* Clipboard polling: TranslatorPopup.check_clipboard (main.py 377-394)    *)
(* and AIAssistant.check_clipboard (app.py 552-561)                        *)

MaxCopies == 3
MaxToggles == 2

ClipTexts == {EmptyStr, <<" ">>, <<"a">>, <<"b">>, <<"a", " ">>}

\* the user copies something else: the clipboard changes between two ticks
Copy ==
    /\ nCopies < MaxCopies
    /\ \E t \in ClipTexts : t # clipboard /\ clipboard' = t
    /\ nCopies' = nCopies + 1
    /\ UNCHANGED <<fbVars, appVars, webVars, fmtVars, askVars, program, libs, nToggles, tr_last_clip, tr_text_area,
                   ollama_checkbox, tr_tick, tr_calls, last_clip, clipboard_timer,
                   app_tick, app_calls>>

\* main.py 380, app.py 556: text = pyperclip.paste().strip()
\* mutation of ClipText: the text is not stripped
ClipTextRaw(raw) == raw
ClipText(raw) == Strip(raw)

\* main.py 383-386, app.py 557: the text is new input
\* mutation of Triggers: last_clip is not compared
TriggersOnAnyText(text, last) == Truthy(text)
Triggers(text, last) == Truthy(text) /\ text # last

\* one more tick of a timer, which read raw (None: paste raised, nothing read)
Tick(t, raw) == [phase |-> 1 - t.phase, read |-> raw]

\* main.py 396-406: translate_and_display sets the text of the display
TranslateOutcomes ==
    IF libs.translator THEN {"translated", "translation_error"} ELSE {"translator_missing"}

\* main.py 377-394: TranslatorPopup.check_clipboard, run by self.timer
TR_check_clipboard ==
    /\ program = "FINALBOT/main.py"
    /\ \E raised \in {~libs.pyperclip, TRUE} :
         IF raised
         THEN /\ tr_tick' = Tick(tr_tick, None)
              /\ UNCHANGED <<tr_last_clip, tr_text_area, tr_calls>>
         ELSE LET text == ClipText(clipboard)
              IN  /\ tr_tick' = Tick(tr_tick, clipboard)
                  /\ IF Triggers(text, tr_last_clip)
                     THEN /\ tr_last_clip' = text
                          /\ IF ~ollama_checkbox
                             THEN /\ \E kind \in TranslateOutcomes :
                                       tr_text_area' = <<Entry(kind, text)>>
                                  /\ tr_calls' = Append(tr_calls, Entry("translate", text))
                             ELSE /\ tr_text_area' = <<Entry("copied_text", text)>>
                                  /\ tr_calls' = Append(tr_calls, Entry("display", text))
                     ELSE UNCHANGED <<tr_last_clip, tr_text_area, tr_calls>>
    /\ UNCHANGED <<fbVars, appVars, webVars, fmtVars, askVars, program, libs, clipboard, nCopies, nToggles,
                   ollama_checkbox, last_clip, clipboard_timer, app_tick, app_calls>>

\* main.py 365-375: TranslatorPopup.on_ollama_toggle
TR_on_ollama_toggle ==
    /\ program = "FINALBOT/main.py"
    /\ nToggles.tr < MaxToggles
    /\ nToggles' = [nToggles EXCEPT !.tr = @ + 1]
    /\ ollama_checkbox' = ~ollama_checkbox
    /\ tr_text_area' = Append(tr_text_area,
                              Entry(IF ollama_checkbox' THEN "ollama_enabled"
                                                        ELSE "translator_enabled", EmptyStr))
    /\ UNCHANGED <<fbVars, appVars, webVars, fmtVars, askVars, program, libs, clipboard, nCopies, tr_last_clip,
                   tr_tick, tr_calls, last_clip, clipboard_timer, app_tick, app_calls>>

\* app.py 544-550: AIAssistant.toggle_translate starts or stops clipboard_timer
App_toggle_translate ==
    /\ program = "app.py"
    /\ nToggles.app < MaxToggles
    /\ nToggles' = [nToggles EXCEPT !.app = @ + 1]
    /\ clipboard_timer' = ~clipboard_timer
    /\ text_area' = Append(text_area, IF clipboard_timer' THEN "auto_translate_enabled"
                                                          ELSE "auto_translate_paused")
    /\ UNCHANGED <<fbVars, appBuckets, appThreads, appEvents, pdf_text, webVars, fmtVars, askVars, program, libs,
                   clipboard, nCopies, tr_last_clip, tr_text_area, ollama_checkbox,
                   tr_tick, tr_calls, last_clip, app_tick, app_calls>>

\* app.py 563-573: translate_text appends one entry
AppTranslateOutcomes ==
    IF libs.translator THEN {"translated", "translation_error"} ELSE {"copied"}

\* app.py 552-561: AIAssistant.check_clipboard, run by clipboard_timer while it is active
App_check_clipboard ==
    /\ program = "app.py"
    /\ clipboard_timer
    /\ \E raised \in {~libs.pyperclip, TRUE} :
         IF raised
         THEN /\ app_tick' = Tick(app_tick, None)
              /\ UNCHANGED <<last_clip, text_area, app_calls>>
         ELSE LET text == ClipText(clipboard)
              IN  /\ app_tick' = Tick(app_tick, clipboard)
                  /\ IF Triggers(text, last_clip)
                     THEN /\ last_clip' = text
                          /\ \E kind \in AppTranslateOutcomes :
                               text_area' = Append(text_area, kind)
                          /\ app_calls' = Append(app_calls, text)
                     ELSE UNCHANGED <<last_clip, text_area, app_calls>>
    /\ UNCHANGED <<fbVars, appBuckets, appThreads, appEvents, pdf_text, webVars, fmtVars, askVars, program, libs,
                   clipboard, nCopies, nToggles, tr_last_clip, tr_text_area,
                   ollama_checkbox, tr_tick, tr_calls, clipboard_timer>>

InitClip ==
    /\ FBIdle
    /\ program \in {"FINALBOT/main.py", "app.py"}
    /\ AppIdle
    /\ libs \in [pyperclip : BOOLEAN, translator : BOOLEAN]
    /\ clipboard \in ClipTexts
    /\ nCopies = 0
    /\ nToggles = [tr |-> 0, app |-> 0]
    /\ tr_last_clip = EmptyStr
    /\ tr_text_area = <<>>
    /\ ollama_checkbox = FALSE
    /\ tr_tick = NoTick
    /\ tr_calls = <<>>
    /\ last_clip = EmptyStr
    /\ clipboard_timer = FALSE
    /\ app_tick = NoTick
    /\ app_calls = <<>>
    /\ WebIdle
    /\ FmtIdle
    /\ AskIdle

NextClip ==
    \/ Copy
    \/ TR_check_clipboard
    \/ TR_on_ollama_toggle
    \/ App_toggle_translate
    \/ App_check_clipboard

\* the two clipboard pollers and the user's copies and toggles
SpecClip == InitClip /\ [][NextClip]_vars

\* a step that is a tick of the poller's timer, and the text that tick read
TrTicked == tr_tick' # tr_tick
AppTicked == app_tick' # app_tick
\* the tick read a text (paste did not raise) that is new input by the code's
\* rule: non-empty once stripped, and not the text that triggered last
NewInput(tick, last) ==
    /\ tick.read # None
    /\ Strip(tick.read) # EmptyStr
    /\ Strip(tick.read) # last
\* the tick and the tick before it both read the clipboard
BothRead(before, after) == before.read # None /\ after.read # None

\* C12 (as stated): a tick triggers translation/display whenever the clipboard
\* value it reads differs from the value the previous tick read, an empty or
\* whitespace-only value included.
C12_AnyChangeTriggers ==
    [][ /\ TrTicked /\ BothRead(tr_tick, tr_tick') /\ tr_tick'.read # tr_tick.read
            => tr_calls' # tr_calls
        /\ AppTicked /\ BothRead(app_tick, app_tick') /\ app_tick'.read # app_tick.read
            => app_calls' # app_calls ]_vars

\* C12 (amended): a tick triggers exactly when the stripped text it reads is
\* non-empty and differs from last_clip; it then records that text in
\* last_clip and translates or displays it. A change back to an earlier value
\* triggers again; an empty or whitespace-only clipboard never triggers.
C12_NonEmptyChangeTriggers ==
    [][ /\ TrTicked =>
              IF NewInput(tr_tick', tr_last_clip)
              THEN /\ tr_last_clip' = Strip(tr_tick'.read)
                   /\ Len(tr_calls') = Len(tr_calls) + 1
                   /\ tr_calls'[Len(tr_calls')].text = Strip(tr_tick'.read)
                   /\ Len(tr_text_area') = 1
                   /\ tr_text_area'[1].text = Strip(tr_tick'.read)
              ELSE tr_calls' = tr_calls
        /\ AppTicked =>
              IF NewInput(app_tick', last_clip)
              THEN /\ last_clip' = Strip(app_tick'.read)
                   /\ app_calls' = Append(app_calls, Strip(app_tick'.read))
                   /\ Len(text_area') = Len(text_area) + 1
              ELSE app_calls' = app_calls ]_vars
\* a, b, then a again were each translated, and the tick after the clipboard
\* was emptied did nothing
C12_Witness ==
    /\ Len(tr_calls) = 3
    /\ tr_calls[1].text = <<"a">> /\ tr_calls[2].text = <<"b">> /\ tr_calls[3].text = <<"a">>
    /\ tr_tick.read \in {EmptyStr, <<" ">>}
    /\ tr_last_clip = <<"a">>

\* C13: a tick that reads the same text as the tick before it leaves
\* last_clip and the display unchanged and makes no translation call.
C13_IdenticalReadIsNoOp ==
    [][ /\ TrTicked /\ BothRead(tr_tick, tr_tick') /\ tr_tick'.read = tr_tick.read
            => UNCHANGED <<tr_last_clip, tr_text_area, tr_calls>>
        /\ AppTicked /\ BothRead(app_tick, app_tick') /\ app_tick'.read = app_tick.read
            => UNCHANGED <<last_clip, text_area, app_calls>> ]_vars
\* the clipboard never changed, an even number of ticks ran and the last one
\* read "a": one translation only
C13_Witness ==
    /\ nCopies = 0
    /\ clipboard = <<"a">>
    /\ app_tick = [phase |-> 0, read |-> <<"a">>]
    /\ app_calls = << <<"a">> >>
    /\ last_clip = <<"a">>

----------------------------------------------------------------------------
(* str.split, str.join, str.replace as Python computes them *)

\* the first index at which sep occurs in s, 0 if none
IndexOf(sep, s) ==
    LET hits == {i \in 1..(Len(s) - Len(sep) + 1) : SubSeq(s, i, i + Len(sep) - 1) = sep}
    IN  IF hits = {} THEN 0 ELSE CHOOSE i \in hits : \A j \in hits : i <= j

RECURSIVE Split(_, _)
\* s.split(sep): the pieces between the occurrences of sep, empty pieces kept
Split(s, sep) ==
    LET i == IndexOf(sep, s)
    IN  IF i = 0 THEN <<s>>
        ELSE <<SubSeq(s, 1, i - 1)>> \o Split(SubSeq(s, i + Len(sep), Len(s)), sep)

RECURSIVE Join(_, _)
\* sep.join(parts)
Join(parts, sep) ==
    IF parts = <<>> THEN EmptyStr
    ELSE IF Len(parts) = 1 THEN parts[1]
    ELSE parts[1] \o sep \o Join(Tail(parts), sep)

\* s.replace(old, new)
Replace(s, old, new) == Join(Split(s, old), new)

\* s.split(): the maximal runs of non-whitespace characters
SplitWhitespace(s) ==
    SelectSeq(Split(Replace(s, <<NL>>, <<" ">>), <<" ">>), Truthy)

----------------------------------------------------------------------------
(* app.py: the Flask handlers stream_text and stream_audio, one thread per *)
(* request, and get_ollama_response                                        *)

MaxRequests == 3

WebQuestions == {<<" ">>, <<"p">>, <<"q">>}

\* the "response" field of the inference server's reply to a question: blank,
\* or the question's letter, for "p" as one of two words among an escaped
\* newline, two spaces and a newline, for another question as a single word
Responses(question) ==
    LET w == Strip(question)
    IN  IF w = <<"p">> THEN {<<"\\", "n">> \o w \o <<" ", " ", "x", NL>>, <<" ">>}
        ELSE {w \o <<NL>>, <<" ">>}

WebRequest(kind, question) ==
    [kind |-> kind, question |-> question, pc |-> "start", status |-> 0,
     posts |-> 0, raw |-> None, answer |-> None, seen |-> None,
     chunks |-> <<>>, spoken |-> None]

\* the handler returns a Response with this status
Respond(r, status) == [r EXCEPT !.pc = "done", !.status = status]

\* app.py 139-147: a request arrives, Flask starts its handler thread and
\* stream_text runs up to the call of get_ollama_response
Web_stream_text ==
    /\ Len(web) < MaxRequests
    /\ \E question \in WebQuestions :
         web' = Append(web, IF ~Truthy(Strip(question))
                            THEN Respond(WebRequest("text", question), 400)
                            ELSE [WebRequest("text", question) EXCEPT !.pc = "post"])
    /\ UNCHANGED <<fbVars, appVars, clipVars, fmtVars, askVars, latest_answer, polly_client, writes>>

\* app.py 162-168: a request arrives, Flask starts its handler thread and
\* stream_audio runs up to its first read of latest_answer
Web_stream_audio ==
    /\ Len(web) < MaxRequests
    /\ \E question \in WebQuestions :
         web' = Append(web, IF ~Truthy(Strip(question)) \/ ~polly_client
                            THEN Respond(WebRequest("audio", question), 500)
                            ELSE [WebRequest("audio", question) EXCEPT !.pc = "test"])
    /\ UNCHANGED <<fbVars, appVars, clipVars, fmtVars, askVars, latest_answer, polly_client, writes>>

\* app.py 170: `latest_answer if latest_answer else ...` takes latest_answer when truthy
\* mutation of UsesLatest: the handler always asks the inference server
UsesLatestNever(latest) == FALSE
UsesLatest(latest) == Truthy(latest)

\* app.py 170: the condition of the conditional expression reads latest_answer
Web_audio_test ==
    /\ \E i \in DOMAIN web :
         /\ web[i].pc = "test"
         /\ web' = [web EXCEPT ![i] = [@ EXCEPT !.seen = latest_answer,
                                                !.pc = IF UsesLatest(latest_answer)
                                                       THEN "load" ELSE "post"]]
    /\ UNCHANGED <<fbVars, appVars, clipVars, fmtVars, askVars, latest_answer, polly_client, writes>>

\* app.py 152: the i-th chunk of the stream
\* mutation of Chunk: every word is followed by a space
ChunkSpaced(words, i) == words[i] \o <<" ">>
Chunk(words, i) == words[i] \o (IF i < Len(words) THEN <<" ">> ELSE EmptyStr)

\* app.py 149-156: the chunks generate() yields
Chunks(answer) ==
    LET words == Split(answer, <<" ">>)
    IN  [i \in 1..Len(words) |-> Chunk(words, i)]

\* the rest of the handler once it holds its answer, none of it touching
\* anything shared: the caller's `if not answer` (app.py 146-147, 171-172),
\* then in stream_text the streamed body (app.py 149-158) and in stream_audio
\* get_best_voice and synthesize_speech (app.py 174-195), which may find no
\* voice or raise
AfterAnswer(r) ==
    IF r.answer = None \/ ~Truthy(r.answer) THEN {Respond(r, 500)}
    ELSE IF r.kind = "text" THEN {Respond([r EXCEPT !.chunks = Chunks(r.answer)], 200)}
    ELSE {Respond(r, 500), Respond([r EXCEPT !.spoken = r.answer], 200)}

\* app.py 170: the value of the conditional expression reads latest_answer again
Web_audio_load ==
    /\ \E i \in DOMAIN web :
         /\ web[i].pc = "load"
         /\ \E r \in AfterAnswer([web[i] EXCEPT !.answer = latest_answer]) :
              web' = [web EXCEPT ![i] = r]
    /\ UNCHANGED <<fbVars, appVars, clipVars, fmtVars, askVars, latest_answer, polly_client, writes>>

\* app.py 123-137: what requests.post does: it raises (or the reply is not the
\* expected JSON), or returns a status other than 200, or 200 with a response
PostOutcomes(question) ==
    {[kind |-> "raise", body |-> None], [kind |-> "status", body |-> None]}
        \cup {[kind |-> "ok", body |-> b] : b \in Responses(question)}

\* app.py 130-132: the answer returned for a response text
Normalise(raw) ==
    Join(SplitWhitespace(Replace(Replace(Strip(raw), <<"\\", "n">>, <<" ">>),
                                 <<NL>>, <<" ">>)),
         <<" ">>)

\* app.py 134-137: the failure paths return None without assigning latest_answer
\* mutation of LatestAfterFailure: a failed call clears the stored answer
LatestAfterFailureCleared(latest) == EmptyStr
LatestAfterFailure(latest) == latest

\* app.py 103-137: get_ollama_response, called by either handler: a raise or a
\* status other than 200 returns None; otherwise the answer is normalised,
\* assigned to latest_answer and returned. The request and the normalisation
\* touch nothing shared, so the call takes effect at its assignment.
Web_get_ollama_response ==
    /\ \E i \in DOMAIN web :
         /\ web[i].pc = "post"
         /\ \E outcome \in PostOutcomes(web[i].question) :
              IF outcome.kind # "ok"
              THEN /\ \E r \in AfterAnswer([web[i] EXCEPT !.posts = @ + 1]) :
                        web' = [web EXCEPT ![i] = r]
                   /\ latest_answer' = LatestAfterFailure(latest_answer)
                   /\ UNCHANGED writes
              ELSE LET answer == Normalise(outcome.body)
                   IN  /\ latest_answer' = answer
                       /\ writes' = Append(writes, i)
                       /\ \E r \in AfterAnswer([web[i] EXCEPT !.posts = @ + 1,
                                                                !.raw = outcome.body,
                                                                !.answer = answer]) :
                            web' = [web EXCEPT ![i] = r]
    /\ UNCHANGED <<fbVars, appVars, clipVars, fmtVars, askVars, polly_client>>

InitWeb ==
    /\ FBIdle
    /\ AppIdle
    /\ ClipIdle
    /\ program = "app.py"
    /\ latest_answer = EmptyStr
    /\ polly_client \in BOOLEAN
    /\ web = <<>>
    /\ writes = <<>>
    /\ FmtIdle
    /\ AskIdle

NextWeb ==
    \/ Web_stream_text
    \/ Web_stream_audio
    \/ Web_audio_test
    \/ Web_audio_load
    \/ Web_get_ollama_response

\* app.py's web server: concurrent stream_text and stream_audio requests
SpecWeb == InitWeb /\ [][NextWeb]_vars

\* C14: latest_answer is one unlocked last-write-wins value. An audio request
\* that found it non-empty speaks what it read from it, an answer written by
\* some other request and not necessarily for its own question, without
\* asking the inference server; one that found it empty asks the server itself.
C14_Written == {web[writes[k]].answer : k \in 1..Len(writes)}
C14_AudioSpeaksLatestOrOwnAnswer ==
    /\ latest_answer = IF writes = <<>> THEN EmptyStr
                       ELSE web[writes[Len(writes)]].answer
    /\ \A i \in DOMAIN web :
         web[i].kind = "audio" /\ web[i].seen # None =>
             IF Truthy(web[i].seen)
             THEN /\ web[i].posts = 0
                  /\ web[i].seen \in C14_Written
                  /\ web[i].answer # None => web[i].answer \in C14_Written \cup {EmptyStr}
             ELSE /\ web[i].pc = "post" \/ web[i].posts = 1
                  /\ web[i].spoken # None => web[i].spoken = web[i].answer
\* while the text request for "q" has not written its answer, the audio
\* request for "q" that came after it has spoken the answer to "p"
C14_Witness ==
    \E i, j, k \in DOMAIN web :
        /\ web[j].kind = "text" /\ web[j].question = <<"q">> /\ web[j].pc = "post"
        /\ j < i
        /\ web[i].kind = "audio" /\ web[i].question = <<"q">>
        /\ web[k].question = <<"p">> /\ writes = <<k>>
        /\ web[i].spoken = web[k].answer

\* C20: the body of a successful /api/ask-stream is the answer's words, each
\* but the last followed by one space, and the chunks concatenated in order
\* are the answer get_ollama_response returned.
RECURSIVE C20_Concat(_)
C20_Concat(chunks) ==
    IF chunks = <<>> THEN EmptyStr ELSE Head(chunks) \o C20_Concat(Tail(chunks))
C20_ChunksConcatenateToAnswer ==
    \A i \in DOMAIN web :
        web[i].kind = "text" /\ web[i].status = 200 =>
            LET words == SplitWhitespace(web[i].answer)
            IN  /\ web[i].answer = Normalise(web[i].raw)
                /\ C20_Concat(web[i].chunks) = web[i].answer
                /\ Len(web[i].chunks) = Len(words)
                /\ \A k \in 1..Len(words) :
                     web[i].chunks[k] = IF k < Len(words) THEN words[k] \o <<" ">>
                                                          ELSE words[k]
\* a two-word answer and a one-word answer were streamed
C20_Witness ==
    \E i, j \in DOMAIN web :
        /\ web[i].status = 200 /\ web[i].chunks = << <<"p", " ">>, <<"x">> >>
        /\ web[j].status = 200 /\ web[j].chunks = << <<"q">> >>

\* C15: upload_pdf starts a further worker while earlier ones run, and
\* pdf_text is the text of the extracted_text notification delivered last,
\* whichever worker sent it: a delivery assigns its text, nothing else
\* assigns pdf_text.
C15_LastDeliveredWins ==
    [][ IF /\ Len(appEvents') < Len(appEvents)
           /\ Head(appEvents).sig = "extracted"
        THEN pdf_text' = Head(appEvents).text
        ELSE pdf_text' = pdf_text ]_vars
\* two workers for two files; the one started second was delivered first, so
\* the text held at the end is the first-started worker's
C15_Witness ==
    /\ Len(appThreads) = 2
    /\ appThreads[1].file_path # appThreads[2].file_path
    /\ appThreads[1].emitted /\ appThreads[2].emitted
    /\ appEvents = <<>>
    /\ Truthy(appThreads[2].text)
    /\ appThreads[1].text # appThreads[2].text
    /\ pdf_text = appThreads[1].text

----------------------------------------------------------------------------
(* FINALBOT/main.py 74-115: format_ollama_answer *)

MaxReplyLen == 7

ReplyChars == {"a", ".", " ", NL}

\* replies that hold one of the cue words of lines 106-107
CueReplies == {<<"E", "x", "a", "m", "p", "l", "e">>, <<"a", " ", "e", ".", "g", ".">>}

\* the replies format_ollama_answer is given: every text of up to MaxReplyLen
\* characters, and the replies with a cue word
Replies ==
    UNION {[1..n -> ReplyChars] : n \in 0..MaxReplyLen} \cup CueReplies

\* str.lower on the letters that occur
Lower(s) == [i \in DOMAIN s |-> IF s[i] = "E" THEN "e" ELSE s[i]]

\* sub in s
Contains(s, sub) == IndexOf(sub, s) # 0

\* [p.strip() for p in parts if p.strip()]
StrippedNonEmpty(parts) ==
    SelectSeq([i \in DOMAIN parts |-> Strip(parts[i])], Truthy)

\* lines 86-89: the split on blank lines if the text holds one, else on newlines
\* mutation of FormatParts: the text is split on blank lines only
FormatPartsBlankOnly(text) == StrippedNonEmpty(Split(text, SEP))
FormatParts(text) ==
    IF Contains(text, SEP) THEN StrippedNonEmpty(Split(text, SEP))
    ELSE StrippedNonEmpty(Split(text, <<NL>>))

RECURSIVE SentenceSplit(_)
\* line 97: re.split(r'(?<=[.!?]) +', text): the text is cut at every run of
\* spaces that follows '.', '!' or '?'
SentenceSplit(s) ==
    LET hits == {i \in 2..Len(s) : s[i] = " " /\ s[i - 1] \in {".", "!", "?"}}
    IN  IF hits = {} THEN <<s>>
        ELSE LET i == CHOOSE h \in hits : \A g \in hits : h <= g
                 j == CHOOSE e \in i..Len(s) :
                        /\ \A k \in i..e : s[k] = " "
                        /\ e = Len(s) \/ s[e + 1] # " "
             IN  <<SubSeq(s, 1, i - 1)>> \o SentenceSplit(SubSeq(s, j + 1, Len(s)))

\* line 92: if len(parts) >= 3
\* mutation of EnoughParts: four parts are asked for
EnoughPartsFour(parts) == Len(parts) >= 4
EnoughParts(parts) == Len(parts) >= 3

\* lines 92-98: the parts if there are enough of them, else the sentences
FormatLines(text) ==
    IF EnoughParts(FormatParts(text)) THEN FormatParts(text)
    ELSE StrippedNonEmpty(SentenceSplit(text))

RECURSIVE IntStr(_)
\* the decimal digits of a positive integer, as f"{i}" gives them
IntStr(i) ==
    LET digit == <<"1", "2", "3", "4", "5", "6", "7", "8", "9">>
    IN  IF i < 10 THEN <<digit[i]>>
        ELSE IntStr(i \div 10) \o (IF i % 10 = 0 THEN <<"0">> ELSE <<digit[i % 10]>>)

\* lines 101-103: f"{i}. {ln}"
Numbered(lines) == [i \in DOMAIN lines |-> IntStr(i) \o <<".", " ">> \o lines[i]]

ExampleBlock == SEP \o <<"Example:", NL, "Refer to the example given above.">>
SourceFooter == SEP \o <<"Source: Answer generated using the uploaded text and Ollama model.">>

\* lines 74-115
format_ollama_answer(raw) ==
    IF raw = None \/ ~Truthy(raw) THEN <<"No response from model.">>
    ELSE LET text == Strip(raw)
             \* lines 109-110: the cue words
             cue  == \/ Contains(Lower(text), <<"e", "x", "a", "m", "p", "l", "e">>)
                     \/ Contains(Lower(text), <<"e", ".", "g", ".">>)
         IN  Join(Numbered(FormatLines(text)), SEP)
                 \o (IF cue THEN ExampleBlock ELSE EmptyStr)
                 \o SourceFooter

\* a caller passes a reply to format_ollama_answer
Fmt_call ==
    /\ formatted = None
    /\ formatted' = format_ollama_answer(raw_text)
    /\ UNCHANGED <<fbVars, appVars, clipVars, webVars, askVars, raw_text>>

InitFmt ==
    /\ FBIdle
    /\ AppIdle
    /\ ClipIdle
    /\ WebIdle
    /\ AskIdle
    /\ program = "FINALBOT/main.py"
    /\ raw_text \in Replies
    /\ formatted = None

NextFmt == Fmt_call

\* format_ollama_answer applied to every reply of Replies
SpecFmt == InitFmt /\ [][NextFmt]_vars

\* the non-empty segments of a reply that blank lines separate, and its lines
C18_Segments(raw) == StrippedNonEmpty(Split(raw, SEP))
C19_Lines(raw) == StrippedNonEmpty(Split(raw, <<NL>>))
\* the output that numbers the segments segs, with or without the Example block
IsNumberingOf(out, segs) ==
    LET entries == [i \in DOMAIN segs |-> IntStr(i) \o <<".", " ">> \o segs[i]]
    IN  \E tail \in {SourceFooter, ExampleBlock \o SourceFooter} :
            out = Join(entries, SEP) \o tail

\* C18: a reply with at least 3 non-empty blank-line-separated segments is
\* returned as exactly that many numbered entries, one per segment, in order.
C18_SegmentsNumberedInOrder ==
    formatted # None /\ Len(C18_Segments(raw_text)) >= 3
        => IsNumberingOf(formatted, C18_Segments(raw_text))
C18_Witness ==
    /\ raw_text = <<"a", NL, NL, ".", NL, NL, "a">>
    /\ formatted = <<"1", ".", " ", "a">> \o SEP \o <<"2", ".", " ", ".">> \o SEP
                       \o <<"3", ".", " ", "a">> \o SourceFooter

\* C19 (as stated): a non-empty reply with fewer than 3 blank-line-separated
\* segments is numbered by its sentences.
C19_FewSegmentsNumberedBySentence ==
    formatted # None /\ Truthy(raw_text) /\ Len(C18_Segments(raw_text)) < 3
        => IsNumberingOf(formatted, StrippedNonEmpty(SentenceSplit(Strip(raw_text))))

\* C19 (amended): a non-empty reply is numbered by its sentences exactly when
\* the split that applies gives fewer than 3 non-empty parts: the split on
\* blank lines if the stripped reply holds one, else the split on newlines.
\* A reply with no blank line and at least 3 non-empty lines is numbered line
\* by line.
C19_FewPartsNumberedBySentence ==
    formatted # None /\ Truthy(raw_text) =>
        LET parts == IF Contains(Strip(raw_text), SEP) THEN C18_Segments(raw_text)
                     ELSE C19_Lines(raw_text)
        IN  IF Len(parts) < 3
            THEN IsNumberingOf(formatted, StrippedNonEmpty(SentenceSplit(Strip(raw_text))))
            ELSE IsNumberingOf(formatted, parts)
\* two sentences on one line numbered by sentence
C19_Witness ==
    /\ raw_text = <<"a", ".", " ", " ", "a", ".">>
    /\ formatted = <<"1", ".", " ", "a", ".">> \o SEP \o <<"2", ".", " ", "a", ".">>
                       \o SourceFooter

----------------------------------------------------------------------------
(* FINALBOT/main.py: the inference clients TranslatorPopup.ask_ollama      *)
(* (408-470) and DocumentQAPopup.ask_question (570-621)                    *)

\* JSON values as resp.json() returns them: t is the Python type, s the text
\* of a str or the digits of a number, items the entries of a list or dict
JItem(k, v) == [k |-> k, v |-> v]
JNull == [t |-> "None", s |-> EmptyStr, items |-> <<>>]
JStr(s) == [t |-> "str", s |-> s, items |-> <<>>]
JNum(digits) == [t |-> "int", s |-> digits, items |-> <<>>]
JList(vs) == [t |-> "list", s |-> EmptyStr, items |-> [i \in DOMAIN vs |-> JItem("", vs[i])]]
JDict(items) == [t |-> "dict", s |-> EmptyStr, items |-> items]
\* the body is not JSON: resp.json() raises
NotJson == [t |-> "invalid", s |-> EmptyStr, items |-> <<>>]

Quoted(q, s) == <<q>> \o s \o <<q>>

RECURSIVE Serialise(_, _, _)
\* a JSON text of v, with the given separators between items and after keys
Serialise(v, itemSep, keySep) ==
    CASE v.t = "str"  -> Quoted("\"", v.s)
      [] v.t = "int"  -> v.s
      [] v.t = "None" -> <<"n", "u", "l", "l">>
      [] v.t = "list" ->
            <<"[">> \o Join([i \in DOMAIN v.items |->
                               Serialise(v.items[i].v, itemSep, keySep)], itemSep) \o <<"]">>
      [] v.t = "dict" ->
            <<"{">> \o Join([i \in DOMAIN v.items |->
                               Quoted("\"", <<v.items[i].k>>) \o keySep
                                   \o Serialise(v.items[i].v, itemSep, keySep)], itemSep)
                    \o <<"}">>

\* json.dumps(data): ', ' and ': '
Dumps(v) == Serialise(v, <<",", " ">>, <<":", " ">>)

RECURSIVE Repr(_)
\* repr(data)
Repr(v) ==
    CASE v.t = "str"  -> Quoted("'", v.s)
      [] v.t = "int"  -> v.s
      [] v.t = "None" -> <<"N", "o", "n", "e">>
      [] v.t = "list" ->
            <<"[">> \o Join([i \in DOMAIN v.items |-> Repr(v.items[i].v)], <<",", " ">>)
                    \o <<"]">>
      [] v.t = "dict" ->
            <<"{">> \o Join([i \in DOMAIN v.items |->
                               Quoted("'", <<v.items[i].k>>) \o <<":", " ">>
                                   \o Repr(v.items[i].v)], <<",", " ">>)
                    \o <<"}">>

\* str(data)
PyStr(v) == IF v.t = "str" THEN v.s ELSE Repr(v)

\* key in d, d[key], d.get(key, default) for a dict d
HasKey(d, key) == \E i \in DOMAIN d.items : d.items[i].k = key
Get(d, key) == d.items[CHOOSE i \in DOMAIN d.items : d.items[i].k = key].v
GetOr(d, key, default) == IF HasKey(d, key) THEN Get(d, key) ELSE default

\* the inner try of lines 448-464 either raises or gives a value
Raises == [raised |-> TRUE, v |-> JNull]
Gives(v) == [raised |-> FALSE, v |-> v]

\* lines 456-457: data["choices"][0].get("message", {}).get("content", ""),
\* after len(data["choices"]) > 0 held; [0] of a dict is a KeyError, .get of
\* anything but a dict an AttributeError
FirstChoiceContent(choices) ==
    IF choices.t = "dict" THEN Raises
    ELSE LET first == IF choices.t = "str" THEN JStr(<<choices.s[1]>>)
                      ELSE choices.items[1].v
         IN  IF first.t # "dict" THEN Raises
             ELSE LET message == GetOr(first, "message", JDict(<<>>))
                  IN  IF message.t # "dict" THEN Raises
                      ELSE Gives(GetOr(message, "content", JStr(EmptyStr)))

\* lines 458-459: a dict with neither field is serialised again
\* mutation of NeitherFieldReply: the body is taken as it came
NeitherFieldReplyRaw(resp) == resp.text
NeitherFieldReply(resp) == Dumps(resp.data)

\* lines 460-461: any other JSON value is converted by str
NonDictReply(resp) == PyStr(resp.data)

\* lines 448-461: the inner try
Probe(resp) ==
    LET data == resp.data
    IN  IF data.t = "invalid" THEN Raises
        ELSE IF data.t # "dict" THEN Gives(JStr(NonDictReply(resp)))
        ELSE IF HasKey(data, "message") /\ Get(data, "message").t = "dict"
        THEN Gives(GetOr(Get(data, "message"), "content", JStr(EmptyStr)))
        ELSE IF HasKey(data, "choices")
        THEN LET choices == Get(data, "choices")
             IN  IF choices.t \in {"int", "None"} THEN Raises
                 ELSE IF choices.s # EmptyStr \/ choices.items # <<>>
                 THEN FirstChoiceContent(choices)
                 ELSE Gives(JStr(NeitherFieldReply(resp)))
        ELSE Gives(JStr(NeitherFieldReply(resp)))

\* lines 447-464: assistant_reply; the except falls back to resp.text
AssistantReply(resp) ==
    IF Probe(resp).raised THEN JStr(resp.text) ELSE Probe(resp).v

Content(s) == JDict(<<JItem("content", JStr(s))>>)
Hi == <<"h", "i">>
Yo == <<"y", "o">>

\* the JSON bodies the server may send
JsonBodies ==
    << JDict(<<JItem("message", Content(Hi))>>),
       JDict(<<JItem("choices", JList(<<JDict(<<JItem("message", Content(Yo))>>)>>))>>),
       JDict(<<JItem("message", Content(Hi)),
               JItem("choices", JList(<<JDict(<<JItem("message", Content(Yo))>>)>>))>>),
       JDict(<<JItem("message", JStr(Hi)),
               JItem("choices", JList(<<JDict(<<JItem("message", Content(Yo))>>)>>))>>),
       JDict(<<JItem("message", JDict(<<JItem("role", JStr(Hi))>>)),
               JItem("choices", JList(<<JDict(<<JItem("message", Content(Yo))>>)>>))>>),
       JDict(<<JItem("message", JDict(<<JItem("content", JNum(<<"1">>))>>))>>),
       JDict(<<JItem("message", JDict(<<JItem("content", JNull)>>))>>),
       JDict(<<JItem("error", JStr(Hi))>>),
       JDict(<<>>),
       JDict(<<JItem("choices", JList(<<>>))>>),
       JDict(<<JItem("choices", JList(<<JStr(Hi)>>))>>),
       JDict(<<JItem("choices", JList(<<JDict(<<>>)>>))>>),
       JDict(<<JItem("choices", JList(<<JDict(<<JItem("message", JNull)>>)>>))>>),
       JDict(<<JItem("choices", JNum(<<"1">>))>>),
       JDict(<<JItem("choices", Content(Hi))>>),
       JList(<<JStr(Hi), JNum(<<"1">>)>>),
       JStr(Hi),
       JNum(<<"1">>),
       JNull >>

\* lines 434-445: what requests.post does: it raises (timeout, connection
\* refused), or returns a response whose body is a JSON text or plain text
HttpOutcomes ==
    <<[kind |-> "raise", text |-> EmptyStr, data |-> NotJson],
      [kind |-> "response", text |-> Hi \o <<".", " ">> \o Yo \o <<".">>, data |-> NotJson]>>
      \o [i \in DOMAIN JsonBodies |->
            [kind |-> "response", text |-> Serialise(JsonBodies[i], <<",">>, <<":">>), data |-> JsonBodies[i]]]

\* one request: what was sent, what came back and the reply derived from it
Exchange(context, q, outcome) ==
    [context |-> context, q |-> q, outcome |-> outcome,
     reply |-> IF outcome.kind = "raise" THEN JNull ELSE AssistantReply(outcome)]

\* where the outer try (lines 433-470) raised: in requests.post, or in
\* format_ollama_answer, whose raw_text.strip() fails on a truthy reply that
\* is not a str; "" if nowhere
RaisedAt(x) ==
    LET \* bool(reply)
        truthy == CASE x.reply.t = "int"  -> x.reply.s # <<"0">>
                    [] x.reply.t = "None" -> FALSE
                    [] OTHER              -> x.reply.items # <<>>
    IN
    IF x.outcome.kind = "raise" THEN "post"
    ELSE IF x.reply.t # "str" /\ truthy THEN "format"
    ELSE ""

\* lines 469-470: the except of the outer try covers the request and the formatting
\* mutation of Caught: only the request is covered
CaughtPostOnly(place) == place = "post"
Caught(place) == TRUE

\* lines 466-470 (617-621, with the reference line as footer): what the handler
\* appends after "You:"
AskEntries(x, footer) ==
    IF RaisedAt(x) = ""
    THEN <<Entry("ollama", format_ollama_answer(IF x.reply.t = "str" THEN x.reply.s
                                                ELSE None) \o footer)>>
    ELSE IF Caught(RaisedAt(x)) THEN <<Entry("request_failed", EmptyStr)>>
    ELSE <<>>

\* an exception the outer try does not cover leaves the handler
FaultAfter(x) ==
    IF RaisedAt(x) # "" /\ ~Caught(RaisedAt(x)) THEN RaisedAt(x) ELSE fault

\* lines 570-621: DocumentQAPopup.ask_question
FB_ask_question ==
    /\ ask_btn
    /\ nAsks < MaxAsks
    /\ \E typed \in Questions :
         LET q == Strip(typed)
         IN  IF ~Truthy(q)
             THEN UNCHANGED <<answer_area, requests, nAsks, fault>>
             ELSE IF NoContext(pdf_extracted_text)
             THEN /\ answer_area' = Append(answer_area, Entry("no_pdf_text", EmptyStr))
                  /\ nAsks' = nAsks + 1
                  /\ UNCHANGED <<requests, fault>>
             ELSE \E k \in DOMAIN HttpOutcomes :
                    LET x == Exchange(pdf_extracted_text, q, HttpOutcomes[k])
                    IN  /\ requests' = Append(requests, x)
                        /\ nAsks' = nAsks + 1
                        /\ answer_area' = answer_area \o <<Entry("you", q)>>
                                              \o AskEntries(x, SEP \o <<"Reference: Based on uploaded PDF file.">>)
                        /\ fault' = FaultAfter(x)
    /\ UNCHANGED <<extractBucket, bucket, uploader, events, upload_btn, ask_btn,
                   status_label, pdf_extracted_text, current_pdf_key,
                   nUploads, appVars, clipVars, webVars, fmtVars, tr_requests>>

NextQA ==
    \/ Next
    \/ FB_ask_question

\* DocumentQAPopup as a whole: the pipeline and ask_question
SpecQA == Init /\ [][NextQA]_vars

\* lines 408-470: TranslatorPopup.ask_ollama, run by send_btn, which is shown
\* while the checkbox is checked; the fuzzy warning (lines 417-421) depends on
\* HAS_FUZZY and on the score of the two texts
TR_ask_ollama ==
    /\ program = "FINALBOT/main.py"
    /\ ollama_checkbox
    /\ nAsks < MaxAsks
    /\ \E typed \in Questions :
         LET msg == Strip(typed)
         IN  IF ~Truthy(msg)
             THEN UNCHANGED <<tr_text_area, tr_requests, nAsks, fault>>
             ELSE IF ~Truthy(tr_last_clip)
             THEN /\ tr_text_area' = Append(tr_text_area, Entry("no_copied_text", EmptyStr))
                  /\ nAsks' = nAsks + 1
                  /\ UNCHANGED <<tr_requests, fault>>
             ELSE \E warns \in BOOLEAN, k \in DOMAIN HttpOutcomes :
                    LET x == Exchange(tr_last_clip, msg, HttpOutcomes[k])
                    IN  /\ tr_requests' = Append(tr_requests, x)
                        /\ nAsks' = nAsks + 1
                        /\ tr_text_area' =
                             tr_text_area
                               \o (IF warns THEN <<Entry("fuzzy_warning", EmptyStr)>> ELSE <<>>)
                               \o <<Entry("you", msg)>> \o AskEntries(x, EmptyStr)
                        /\ fault' = FaultAfter(x)
    /\ UNCHANGED <<extractBucket, bucket, uploader, events, upload_btn, ask_btn,
                   status_label, pdf_extracted_text, current_pdf_key, answer_area,
                   requests, nUploads, appVars, webVars, fmtVars, program, libs,
                   clipboard, nCopies, nToggles, tr_last_clip, ollama_checkbox,
                   tr_tick, tr_calls, last_clip, clipboard_timer, app_tick, app_calls>>

\* FINALBOT/main.py starts with something on the clipboard
InitAsk ==
    /\ InitClip
    /\ program = "FINALBOT/main.py"

NextAsk ==
    \/ TR_check_clipboard
    \/ TR_on_ollama_toggle
    \/ TR_ask_ollama

\* the translator window: clipboard polling, the checkbox and ask_ollama
SpecAsk == InitAsk /\ [][NextAsk]_vars

\* the requests of both clients that got a response
C16_Answered ==
    {tr_requests[i] : i \in {j \in DOMAIN tr_requests : tr_requests[j].outcome.kind = "response"}}
        \cup {requests[i] : i \in {j \in DOMAIN requests : requests[j].outcome.kind = "response"}}
\* the field is there to read: obj is an object that holds key
C16_Has(obj, key) == obj.t = "dict" /\ \E i \in DOMAIN obj.items : obj.items[i].k = key
C16_At(obj, key) == obj.items[CHOOSE i \in DOMAIN obj.items : obj.items[i].k = key].v
\* message.content is present in the body
C16_MessageContent(d) ==
    C16_Has(d, "message") /\ C16_Has(C16_At(d, "message"), "content")
\* choices[0].message.content is present in the body
C16_ChoiceContent(d) ==
    /\ C16_Has(d, "choices")
    /\ C16_At(d, "choices").t = "list" /\ C16_At(d, "choices").items # <<>>
    /\ C16_Has(C16_At(d, "choices").items[1].v, "message")
    /\ C16_Has(C16_At(C16_At(d, "choices").items[1].v, "message"), "content")
C16_ChoiceValue(d) ==
    C16_At(C16_At(C16_At(d, "choices").items[1].v, "message"), "content")
\* message is an object, so that choices is not tried
C16_MessageIsObject(d) == C16_Has(d, "message") /\ C16_At(d, "message").t = "dict"
\* choices holds something to index
C16_ChoicesNonEmpty(d) ==
    /\ C16_Has(d, "choices")
    /\ C16_At(d, "choices").t \notin {"int", "None"}
    /\ C16_At(d, "choices").s # EmptyStr \/ C16_At(d, "choices").items # <<>>

\* C16 (as stated): the reply is message.content when present, otherwise
\* choices[0].message.content when present, otherwise the raw response body.
C16_RawBodyIsTheFallback ==
    \A x \in C16_Answered :
        x.reply = IF C16_MessageContent(x.outcome.data)
                  THEN C16_At(C16_At(x.outcome.data, "message"), "content")
                  ELSE IF C16_ChoiceContent(x.outcome.data)
                  THEN C16_ChoiceValue(x.outcome.data)
                  ELSE JStr(x.outcome.text)

\* C16 (amended): message.content when message is an object (empty when it has
\* no content; choices is then not tried); otherwise choices[0].message.content
\* when present; a JSON object with neither field or with empty choices gives
\* json.dumps of the parsed object and a non-object JSON value gives str of it;
\* the raw body is the reply only when the body is not JSON.
C16_ReplyDerivation ==
    \A x \in C16_Answered :
        LET d == x.outcome.data
        IN  /\ C16_MessageContent(d) /\ C16_MessageIsObject(d)
                => x.reply = C16_At(C16_At(d, "message"), "content")
            /\ C16_MessageIsObject(d) /\ ~C16_MessageContent(d) => x.reply = JStr(EmptyStr)
            /\ ~C16_MessageIsObject(d) /\ C16_ChoiceContent(d) => x.reply = C16_ChoiceValue(d)
            /\ d.t = "dict" /\ ~C16_MessageIsObject(d) /\ ~C16_ChoicesNonEmpty(d)
                   /\ (C16_Has(d, "choices") => C16_At(d, "choices").t \notin {"int", "None"})
                => x.reply = JStr(Dumps(d))
            /\ d.t \in {"str", "int", "None", "list"} => x.reply = JStr(PyStr(d))
            /\ d.t = "invalid" => x.reply = JStr(x.outcome.text)
\* the body {"error":"hi"} gave the reply {"error": "hi"}, and the JSON string
\* "hi" would give hi
C16_Witness ==
    \E i \in DOMAIN tr_requests :
        /\ tr_requests[i].outcome.data = JDict(<<JItem("error", JStr(Hi))>>)
        /\ tr_requests[i].reply = JStr(Dumps(tr_requests[i].outcome.data))
        /\ tr_requests[i].reply.s # tr_requests[i].outcome.text
        /\ tr_text_area[Len(tr_text_area)].kind = "ollama"

CountKind(area, kind) == Cardinality({i \in DOMAIN area : area[i].kind = kind})

\* C17: a question sends at most one inference request; when the request
\* fails the handler appends exactly one error message, and no exception
\* leaves the handler.
C17_OneRequestOneErrorNoFault ==
    [][ /\ Len(tr_requests') + Len(requests') <= Len(tr_requests) + Len(requests) + 1
        /\ fault' = ""
        /\ Len(tr_requests') > Len(tr_requests) =>
              LET errors == CountKind(tr_text_area', "request_failed")
                                - CountKind(tr_text_area, "request_failed")
              IN  /\ errors \in {0, 1}
                  /\ tr_requests'[Len(tr_requests')].outcome.kind = "raise" =>
                        /\ errors = 1
                        /\ tr_text_area'[Len(tr_text_area')].kind = "request_failed"
        /\ Len(requests') > Len(requests) =>
              LET errors == CountKind(answer_area', "request_failed")
                                - CountKind(answer_area, "request_failed")
              IN  /\ errors \in {0, 1}
                  /\ requests'[Len(requests')].outcome.kind = "raise" =>
                        /\ errors = 1
                        /\ answer_area'[Len(answer_area')].kind = "request_failed"
      ]_vars
\* the request timed out: one request, the question and one error message
C17_Witness ==
    /\ Len(tr_requests) = 1
    /\ tr_requests[1].outcome.kind = "raise"
    /\ Len(tr_text_area) >= 2
    /\ tr_text_area[Len(tr_text_area) - 1].kind = "you"
    /\ tr_text_area[Len(tr_text_area)].kind = "request_failed"
    /\ CountKind(tr_text_area, "request_failed") = 1
    /\ fault = ""

----------------------------------------------------------------------------
(* FINALBOT: the upload pipeline under the scheduling the program runs with *)

\* Spec with a worker that keeps running and an event loop that keeps
\* dispatching, while the user may stop selecting files at any time:
\* UploadThread.run (lines 132-182) goes on, as every external call returns or
\* raises, and the Qt event loop delivers every queued signal to the slot it
\* is connected to (lines 546-547)
SpecFair ==
    /\ Spec
    /\ WF_vars(\/ FB_CheckDuplicate
               \/ FB_SkipUpload
               \/ FB_UploadFile
               \/ FB_OpenPdf
               \/ FB_ExtractPage
               \/ FB_EndOfPages
               \/ FB_StoreExtracted)
    /\ WF_vars(FB_on_upload_progress \/ FB_on_extracted_text)

\* C21 (as claimed): once a started UploadThread has finished, whatever its
\* outcome, the 'Upload PDF' button is eventually enabled again.
C21_ButtonEventuallyEnabled == Finished(uploader) ~> upload_btn

\* a worker has been started and has not returned
Running(t) == t.pc \notin {"idle", "done"}

\* C22: at most one UploadThread started from the UI is in flight: the upload
\* button is disabled from the selection of a file until that worker's
\* extracted-text notification has been handled, so select_file starts a worker
\* only when none is running and none has a notification still queued.
C22_OneWorkerInFlight ==
    [][ /\ upload_btn' =>
              /\ ~Running(uploader')
              /\ \A i \in DOMAIN events' : events'[i].sig # "extracted"
        /\ (nUploads' > nUploads /\ Running(uploader')) =>
              /\ ~Running(uploader)
              /\ events = <<>>
              /\ ~upload_btn'
      ]_vars
\* a second worker is running, started after the first one's notification was handled
C22_Witness ==
    /\ Running(uploader)
    /\ ~upload_btn
    /\ nUploads = 2
    /\ Len(answer_area) = 1

----------------------------------------------------------------------------
(* app.py: the web server serving one request at a time *)

\* a client that sends a request only after every earlier handler has returned
\* its Response
NextWebSeq ==
    \/ (\A i \in DOMAIN web : web[i].pc = "done") /\ Web_stream_text
    \/ (\A i \in DOMAIN web : web[i].pc = "done") /\ Web_stream_audio
    \/ Web_audio_test
    \/ Web_audio_load
    \/ Web_get_ollama_response

\* app.py's web server with no overlapping requests
SpecWebSeq == InitWeb /\ [][NextWebSeq]_vars

\* C23 (as claimed): in a sequential run, what /api/ask-audio-stream
\* synthesizes for question q is an answer that was generated for q, never the
\* answer of an earlier, different question.
C23_AudioSpeaksAnswerToItsQuestion ==
    \A i \in DOMAIN web :
        web[i].kind = "audio" /\ web[i].spoken # None =>
            \E k \in DOMAIN writes :
                /\ Strip(web[writes[k]].question) = Strip(web[i].question)
                /\ web[writes[k]].answer = web[i].spoken

\* C24 (as claimed): once the current worker's notification has been handled,
\* current_pdf_key is None or the key under which the text now held in
\* pdf_extracted_text was stored; it never names an earlier document.
C24_KeyIsOfHeldText ==
    (Finished(uploader) /\ Notified(uploader) /\ events = <<>>) =>
        \/ current_pdf_key = None
        \/ /\ ~RaisedIn(uploader, "put_object")
           /\ \E i \in CallIdx(uploader, "put_object") :
                /\ uploader.log[i].key = current_pdf_key
                /\ uploader.log[i].text = pdf_extracted_text

\* C25 (as claimed): every inference request of ask_question is sent when the
\* most recently selected file's notification has been handled, with that
\* file's extracted text as context; none is sent with an earlier document's
\* text while a newer upload is in progress or has failed.
C25_ContextIsOfLatestFile ==
    [][ Len(requests') > Len(requests) =>
            /\ Finished(uploader)
            /\ Notified(uploader)
            /\ events = <<>>
            /\ requests'[Len(requests')].context = uploader.text
      ]_vars

\* C26: under SpecFair every run of UploadThread.run terminates; it emits
\* extracted_text_signal at most once, and when it does, that is the last thing
\* the run emits, after the upload or skip progress message and after any
\* progress message of the secondary storage step.
C26_RunTerminatesNotifyingLast ==
    /\ Running(uploader) ~> Finished(uploader)
    /\ [](/\ Cardinality(ExtractedIdx(uploader)) <= 1
          /\ Notified(uploader) =>
                /\ Finished(uploader)
                /\ LastLogged(uploader).sig = "extracted"
                /\ \E i \in 1..Len(uploader.log) :
                     uploader.log[i] \in {Progress("uploaded"), Progress("skip")}
          /\ (Finished(uploader) /\ ~Notified(uploader)) =>
                LastLogged(uploader) = Progress("thread_error"))
\* a finished run that reported the upload, then the stored text, and then
\* notified once
C26_Witness ==
    /\ Finished(uploader)
    /\ Len(uploader.log) >= 3
    /\ uploader.log[Len(uploader.log) - 1] = Progress("stored")
    /\ Reported(uploader, "uploaded")
    /\ Cardinality(ExtractedIdx(uploader)) = 1
    /\ LastLogged(uploader).sig = "extracted"

\* C27: a call of get_ollama_response that fails returns None and leaves
\* latest_answer as it was; a call that succeeds assigns the normalised answer
\* it returns; nothing else assigns latest_answer, so it is the empty string
\* until the first success and the last success's answer afterwards; and an
\* /api/ask-stream request with a blank question is answered 400 without a
\* call of the inference server.
C27_FailedCallLeavesLatestAnswer ==
    [][ /\ \A i \in DOMAIN web :
             web'[i].posts > web[i].posts =>
                 IF web'[i].raw = None
                 THEN /\ web'[i].answer = None
                      /\ web'[i].status = 500
                      /\ latest_answer' = latest_answer
                 ELSE /\ web'[i].answer = Normalise(web'[i].raw)
                      /\ latest_answer' = web'[i].answer
        /\ (\A i \in DOMAIN web : web'[i].posts = web[i].posts) =>
               latest_answer' = latest_answer
        /\ latest_answer' = IF writes' = <<>> THEN EmptyStr
                            ELSE web'[writes'[Len(writes')]].answer
        /\ \A i \in DOMAIN web' :
             (web'[i].kind = "text" /\ ~Truthy(Strip(web'[i].question))) =>
                 /\ web'[i].status = 400
                 /\ web'[i].posts = 0
      ]_vars
\* after the answer to "p" was stored, a request for "q" failed and a request
\* with a blank question was refused, and the stored answer is still the one to "p"
C27_Witness ==
    \E k, j, l \in DOMAIN web :
        /\ writes = <<k>>
        /\ latest_answer = <<"p", " ", "x">>
        /\ k < j
        /\ web[j].question = <<"q">> /\ web[j].posts = 1 /\ web[j].answer = None
        /\ web[j].status = 500
        /\ web[l].kind = "text" /\ web[l].status = 400

====
